---- MODULE Spec2Model ----
(***************************************************************************)
(* The galaxy generator of src/src/App.js: the module-level parameters     *)
(* object, the App component (GUI state), the Galaxy component (clock,     *)
(* effect, frame callback) and generateGalaxy (the per-particle loop and   *)
(* the buffer hand-off).                                                   *)
(*                                                                         *)
(* Numbers are exact rationals <<n, d>> with d > 0; <<0, 0>> is NaN and    *)
(* <<1, 0>>, <<-1, 0>> are the infinities.  cos/sin are kept symbolic: a   *)
(* position entry is the expression fn(pi*PI + rad) * r + off.             *)
(***************************************************************************)
EXTENDS Integers, Sequences, FiniteSets, TLC

VARIABLES
    parameters,   \* the module-level object of lines 8-18
    state,        \* App's useState value (line 116)
    aliased,      \* state is still the very object `parameters`
    pc,           \* "unmounted", "effect" (effect pending), "loop", "idle"
    renders,      \* renders of Galaxy so far
    passes,       \* completed generateGalaxy calls so far
    i,            \* loop variable of generateGalaxy
    positions,    \* local Float32Array of generateGalaxy (line 49)
    colors,       \* local Float32Array of generateGalaxy (line 50)
    geometry,     \* attributes attached to particles.current.geometry
    nextId,       \* identity of the next allocated array
    rng,          \* state of the ambient Math.random source
    passRng,      \* rng as it was when the latest pass began
    clock,        \* the THREE.Clock the frame callback closes over
    now,          \* wall time in seconds
    rotationY,    \* particles.current.rotation.y
    subscribed    \* the frame callback is registered with the render loop

vars == <<parameters, state, aliased, pc, renders, passes, i, positions,
          colors, geometry, nextId, rng, passRng, clock, now, rotationY,
          subscribed>>

-----------------------------------------------------------------------------
(* Bounds of the model *)

MaxCount == 4
MaxBranches == 3
MaxRadius == 2
MaxChanges == 2
MaxTime == 20
TickSeconds == 20

-----------------------------------------------------------------------------
(* JavaScript numbers, as exact rationals with NaN and the infinities *)

Abs(x) == IF x < 0 THEN -x ELSE x

Sgn(x) == IF x < 0 THEN -1 ELSE IF x > 0 THEN 1 ELSE 0

RECURSIVE GCD(_, _)
GCD(a, b) == IF b = 0 THEN a ELSE GCD(b, a % b)

NaN == <<0, 0>>

Frac(n, d) ==
    IF d = 0 THEN <<Sgn(n), 0>>
    ELSE LET g == GCD(Abs(n), Abs(d))
         IN  <<Sgn(d) * (n \div g), Abs(d) \div g>>

Num(n) == <<n, 1>>

Zero == Num(0)

IsNaN(x) == x = NaN

IsFinite(x) == x[2] # 0

Mul(x, y) ==
    IF IsNaN(x) \/ IsNaN(y) THEN NaN
    ELSE IF IsFinite(x) /\ IsFinite(y) THEN Frac(x[1] * y[1], x[2] * y[2])
    ELSE <<Sgn(x[1]) * Sgn(y[1]), 0>>

Add(x, y) ==
    IF IsNaN(x) \/ IsNaN(y) THEN NaN
    ELSE IF IsFinite(x) /\ IsFinite(y)
         THEN Frac(x[1] * y[2] + y[1] * x[2], x[2] * y[2])
    ELSE IF IsFinite(x) THEN y
    ELSE IF IsFinite(y) THEN x
    ELSE IF x = y THEN x ELSE NaN

Neg(x) == <<-x[1], x[2]>>

Sub(x, y) == Add(x, Neg(y))

Div(x, y) ==
    IF IsNaN(x) \/ IsNaN(y) THEN NaN
    ELSE IF IsFinite(x) /\ IsFinite(y) THEN Frac(x[1] * y[2], x[2] * y[1])
    ELSE IF IsFinite(x) THEN Zero
    ELSE IF IsFinite(y) THEN <<Sgn(x[1]) * (IF y[1] < 0 THEN -1 ELSE 1), 0>>
    ELSE NaN

\* x < y on numbers; false when either is NaN
Less(x, y) ==
    /\ ~IsNaN(x)
    /\ ~IsNaN(y)
    /\ IF IsFinite(x) /\ IsFinite(y) THEN x[1] * y[2] < y[1] * x[2]
       ELSE IF IsFinite(x) THEN y[1] > 0
       ELSE IF IsFinite(y) THEN x[1] < 0
       ELSE x[1] < y[1]

Leq(x, y) == ~IsNaN(x) /\ ~IsNaN(y) /\ ~Less(y, x)

\* i % n on non-negative integers: NaN when n is 0
Mod(a, n) == IF n = 0 THEN NaN ELSE Num(a % n)

\* Math.pow(x, p) for an integer exponent p >= 0
RECURSIVE Pow(_, _)
Pow(x, p) == IF p = 0 THEN Num(1) ELSE Mul(x, Pow(x, p - 1))

-----------------------------------------------------------------------------
(* THREE.Color *)

\* new THREE.Color("#rrggbb"): each channel is its byte over 255
Color(hex) ==
    [r |-> Frac((hex \div 65536) % 256, 255),
     g |-> Frac((hex \div 256) % 256, 255),
     b |-> Frac(hex % 256, 255)]

\* c.lerp(target, alpha): channel += (target.channel - channel) * alpha
lerp(c, target, alpha) ==
    [r |-> Add(c.r, Mul(Sub(target.r, c.r), alpha)),
     g |-> Add(c.g, Mul(Sub(target.g, c.g), alpha)),
     b |-> Add(c.b, Mul(Sub(target.b, c.b), alpha))]

-----------------------------------------------------------------------------
(* Math.random: the draws are one of a few periodic sequences in [0, 1) *)

RandStreams ==
    << << <<1, 2>> >>,
       << <<0, 1>>, <<3, 4>>, <<1, 4>>, <<1, 2>> >>,
       << <<3, 4>>, <<1, 4>>, <<3, 4>> >> >>

\* the k-th next draw of the source in state g
RandomAt(g, k) ==
    LET s == RandStreams[g.stream]
    IN  s[((g.idx + k) % Len(s)) + 1]

\* the source after n draws
Advance(g, n) ==
    [g EXCEPT !.idx = (g.idx + n) % Len(RandStreams[g.stream])]

DrawsPerParticle == 7

-----------------------------------------------------------------------------
(* Symbolic position entries: fn(pi * PI + rad) * r + off *)

Trig(fn, angle, r, off) ==
    [fn |-> fn, pi |-> angle.pi, rad |-> angle.rad, r |-> r, off |-> off]

\* a plain number stored in a position buffer
Plain(v) == [fn |-> "one", pi |-> Zero, rad |-> Zero, r |-> Zero, off |-> v]

\* new Float32Array(n): n zeros, with a fresh identity
Float32Array(id, n, zero) == [id |-> id, data |-> [k \in 0 .. n - 1 |-> zero]]

\* a[k] = v on a typed array: writes outside the array are dropped
Store(a, k, v) ==
    IF k \in DOMAIN a.data THEN [a EXCEPT !.data[k] = v] ELSE a

NoArray == [id |-> 0, data |-> [k \in {} |-> Zero]]

-----------------------------------------------------------------------------
(* The parameters object *)

Fields ==
    {"size", "count", "radius", "branches", "spin", "randomness",
     "randomnessPower", "colorIn", "colorOut"}

ColorInDefault == 12321407     \* #BC027F
ColorOutDefault == 19619       \* #004CA3

\* lines 8-18, with count and branches scaled into the model's bounds
Defaults ==
    [size |-> Frac(1, 1000), count |-> 2, radius |-> Num(MaxRadius),
     branches |-> MaxBranches, spin |-> Frac(5, 4), randomness |-> Frac(1, 4),
     randomnessPower |-> 2, colorIn |-> ColorInDefault,
     colorOut |-> ColorOutDefault]

\* a planar, jitter-free galaxy between pure red and pure blue
Planar ==
    [size |-> Frac(1, 1000), count |-> 4, radius |-> Num(1), branches |-> 2,
     spin |-> Zero, randomness |-> Zero, randomnessPower |-> 1,
     colorIn |-> 16711680, colorOut |-> 255]

\* the values a GUI control can commit for a field (lines 128-172)
GuiValues(f) ==
    CASE f = "count" -> {1}
      [] f = "size" -> {Frac(1, 10)}
      [] f = "radius" -> {Frac(1, 100)}
      [] f = "branches" -> {2}
      [] f = "spin" -> {Num(-5)}
      [] f = "randomness" -> {Num(2)}
      [] f = "randomnessPower" -> {1}
      [] f = "colorIn" -> {16711680}
      [] f = "colorOut" -> {255}

\* the parameter objects generateGalaxy is exercised on
ParameterSets ==
    {[base EXCEPT !.count = c, !.branches = b, !.radius = Num(r)] :
        base \in {Defaults, Planar}, c \in 0 .. MaxCount,
        b \in 0 .. MaxBranches, r \in 0 .. MaxRadius}

-----------------------------------------------------------------------------
(* generateGalaxy, lines 48-98 *)

\* a stride of two floats per particle instead of three
I3_Mut(idx) == idx * 2

I3(idx) == idx * 3

\* arms filled in contiguous runs instead of round-robin
BranchOf_Mut(idx, branches) ==
    IF branches = 0 THEN NaN ELSE Mod(idx \div branches, branches)

\* line 60: the arm of particle idx
BranchOf(idx, branches) == Mod(idx, branches)

\* jitter that forgets the randomness factor
Jitter_Mut(P, magnitude, signDraw, radius) ==
    Mul(Mul(Pow(magnitude, P.randomnessPower),
            IF Less(signDraw, Frac(1, 2)) THEN Num(1) ELSE Num(-1)),
        radius)

\* lines 62-66: one axis of jitter from a magnitude draw and a sign draw
Jitter(P, magnitude, signDraw, radius) ==
    Mul(Mul(Mul(Pow(magnitude, P.randomnessPower),
                IF Less(signDraw, Frac(1, 2)) THEN Num(1) ELSE Num(-1)),
            P.randomness),
        radius)

\* a mix fraction that is not normalised by parameters.radius
MixFraction_Mut(P, radius) == radius

\* line 83: the colour mix fraction
MixFraction(P, radius) == Div(radius, P.radius)

\* lines 55-87: what iteration idx computes from parameters P and source g
Particle(P, idx, g) ==
    LET radius == Mul(RandomAt(g, 0), P.radius)
        spinAngle == Mul(radius, P.spin)
        branchAngle ==
            Mul(Div(BranchOf(idx, P.branches), Num(P.branches)), Num(2))
        randomX == Jitter(P, RandomAt(g, 1), RandomAt(g, 2), radius)
        randomY == Jitter(P, RandomAt(g, 3), RandomAt(g, 4), radius)
        randomZ == Jitter(P, RandomAt(g, 5), RandomAt(g, 6), radius)
        angle == [pi |-> branchAngle, rad |-> spinAngle]
        mixedColor ==
            lerp(Color(P.colorIn), Color(P.colorOut), MixFraction(P, radius))
    IN  [x |-> Trig("cos", angle, radius, randomX),
         y |-> Plain(randomY),
         z |-> Trig("sin", angle, radius, randomZ),
         r |-> mixedColor.r,
         g |-> mixedColor.g,
         b |-> mixedColor.b]

\* the buffers a whole pass over P fills, starting from source g
PositionsOf(P, g) ==
    [k \in 0 .. 3 * P.count - 1 |->
        LET p == Particle(P, k \div 3, Advance(g, DrawsPerParticle * (k \div 3)))
        IN  CASE k % 3 = 0 -> p.x [] k % 3 = 1 -> p.y [] OTHER -> p.z]

ColorsOf(P, g) ==
    [k \in 0 .. 3 * P.count - 1 |->
        LET p == Particle(P, k \div 3, Advance(g, DrawsPerParticle * (k \div 3)))
        IN  CASE k % 3 = 0 -> p.r [] k % 3 = 1 -> p.g [] OTHER -> p.b]

-----------------------------------------------------------------------------
(* THREE.Clock *)

\* new THREE.Clock(): autoStart, not yet running
NewClock == [running |-> FALSE, oldTime |-> 0, elapsedTime |-> 0]

\* clock.getElapsedTime() at wall time t: the clock afterwards
getElapsedTime(c, t) ==
    IF ~c.running
    THEN [running |-> TRUE, oldTime |-> t, elapsedTime |-> 0]
    ELSE [c EXCEPT !.oldTime = t, !.elapsedTime = c.elapsedTime + (t - c.oldTime)]

RotationSpeed == Frac(1, 20)   \* 0.05 radians per second

-----------------------------------------------------------------------------
(* Initial states *)

InitWith(P, streams) ==
    /\ parameters = P
    /\ state = P
    /\ aliased = TRUE
    /\ pc = "unmounted"
    /\ renders = 0
    /\ passes = 0
    /\ i = 0
    /\ positions = NoArray
    /\ colors = NoArray
    /\ geometry = [position |-> NoArray, color |-> NoArray]
    /\ nextId = 1
    /\ rng \in {[stream |-> s, idx |-> 0] : s \in streams}
    /\ passRng = [stream |-> 1, idx |-> 0]
    /\ clock = NewClock
    /\ now = 0
    /\ rotationY = Zero
    /\ subscribed = FALSE

\* the application as shipped: the defaults, one varied sequence of draws
Init == InitWith(Defaults, {2})

\* generateGalaxy over every parameter object and every sequence of draws
GenInit == \E P \in ParameterSets : InitWith(P, DOMAIN RandStreams)

-----------------------------------------------------------------------------
(* Actions *)

\* useEffect(..., []): the effect runs after the first render only
useEffectFires_Mut(isMount) == isMount

\* useEffect without a dependency list (lines 38-40) runs after every render
useEffectFires(isMount) == TRUE

\* first render of App and Galaxy, and the commit of <points>
Mount ==
    /\ pc = "unmounted"
    /\ state' = parameters
    /\ aliased' = TRUE
    /\ clock' = NewClock
    /\ geometry' = [position |-> NoArray, color |-> NoArray]
    /\ renders' = renders + 1
    /\ pc' = IF useEffectFires(TRUE) THEN "effect" ELSE "idle"
    /\ UNCHANGED <<parameters, passes, i, positions, colors, nextId, rng,
                   passRng, now, rotationY, subscribed>>

\* a GUI control commits field f = v through setState; App and Galaxy
\* re-render.  Nothing in App.js assigns a field of `parameters`; whether the
\* control library also assigns the field in place on a data object is left
\* open: on none, on the object currently passed as data={state} (which is
\* `parameters` only while state aliases it), or on the object passed at
\* mount (which is `parameters`).
WriteTargets == {"none", "current", "original"}

GuiChange(f, v, target) ==
    /\ pc = "idle"
    /\ renders <= MaxChanges
    /\ state' = [state EXCEPT ![f] = v]
    /\ parameters' = IF target = "original" \/ (target = "current" /\ aliased)
                     THEN [parameters EXCEPT ![f] = v]
                     ELSE parameters
    /\ aliased' = FALSE
    /\ clock' = NewClock
    /\ renders' = renders + 1
    /\ pc' = IF useEffectFires(FALSE) THEN "effect" ELSE "idle"
    /\ UNCHANGED <<passes, i, positions, colors, geometry, nextId, rng,
                   passRng, now, rotationY, subscribed>>

\* the effect calls generateGalaxy: lines 49-52 allocate the two arrays
RunEffect ==
    /\ pc = "effect"
    /\ positions' = Float32Array(nextId, parameters.count * 3, Plain(Zero))
    /\ colors' = Float32Array(nextId + 1, parameters.count * 3, Zero)
    /\ nextId' = nextId + 2
    /\ i' = 0
    /\ passRng' = rng
    /\ pc' = "loop"
    /\ UNCHANGED <<parameters, state, aliased, renders, passes, geometry, rng,
                   clock, now, rotationY, subscribed>>

\* one iteration of the loop of lines 54-88
LoopIteration ==
    /\ pc = "loop"
    /\ i < parameters.count
    /\ LET i3 == I3(i)
           p == Particle(parameters, i, rng)
       IN  /\ positions' =
                Store(Store(Store(positions, i3, p.x), i3 + 1, p.y), i3 + 2, p.z)
           /\ colors' =
                Store(Store(Store(colors, i3, p.r), i3 + 1, p.g), i3 + 2, p.b)
    /\ rng' = Advance(rng, DrawsPerParticle)
    /\ i' = i + 1
    /\ UNCHANGED <<parameters, state, aliased, pc, renders, passes, geometry,
                   nextId, passRng, clock, now, rotationY, subscribed>>

\* only the position attribute is replaced
Attached_Mut(geo, pos, col) == [position |-> pos, color |-> geo.color]

\* what lines 90-97 attach to the geometry
Attached(geo, pos, col) == [position |-> pos, color |-> col]

\* loop exit and the two setAttribute calls of lines 90-97; at mount the
\* subscription of the frame callback follows in the same effect flush
SetAttributes ==
    /\ pc = "loop"
    /\ ~(i < parameters.count)
    /\ geometry' = Attached(geometry, positions, colors)
    /\ passes' = passes + 1
    /\ subscribed' = TRUE
    /\ positions' = NoArray
    /\ colors' = NoArray
    /\ i' = 0
    /\ pc' = "idle"
    /\ UNCHANGED <<parameters, state, aliased, renders, nextId, rng, passRng,
                   clock, now, rotationY>>

\* a frame callback that also drops the position attribute
FrameEffect_Mut(geo, c) ==
    [geometry |-> [geo EXCEPT !.position = NoArray],
     rotationY |-> Mul(Num(c.elapsedTime), RotationSpeed)]

\* what the frame callback stores on the points object (lines 43-45)
FrameEffect(geo, c) ==
    [geometry |-> geo, rotationY |-> Mul(Num(c.elapsedTime), RotationSpeed)]

\* a display frame, dt seconds after the previous event (lines 42-46)
Frame(dt) ==
    /\ subscribed
    /\ pc \in {"idle", "effect"}
    /\ now + dt <= MaxTime
    /\ now' = now + dt
    /\ clock' = getElapsedTime(clock, now')
    /\ geometry' = FrameEffect(geometry, clock').geometry
    /\ rotationY' = FrameEffect(geometry, clock').rotationY
    /\ UNCHANGED <<parameters, state, aliased, pc, renders, passes, i,
                   positions, colors, nextId, rng, passRng, subscribed>>

GenNext == Mount \/ RunEffect \/ LoopIteration \/ SetAttributes

Next ==
    \/ Mount
    \/ \E f \in Fields : \E v \in GuiValues(f) : \E w \in WriteTargets :
          GuiChange(f, v, w)
    \/ RunEffect
    \/ LoopIteration
    \/ SetAttributes
    \/ \E dt \in {0, TickSeconds} : Frame(dt)

Spec == Init /\ [][Next]_vars

GenSpec == GenInit /\ [][GenNext]_vars

-----------------------------------------------------------------------------
(* Properties *)

\* a pass has completed and nothing is running
Settled == pc = "idle" /\ passes >= 1

\* a display frame may run in this state
FrameMayRun == subscribed /\ pc \in {"idle", "effect"}

Valid(P) == P.count >= 1 /\ P.branches >= 1 /\ Less(Zero, P.radius)

Degenerate(P) == P.count = 0 \/ P.branches = 0 \/ P.radius = Zero

Particles(P) == 0 .. P.count - 1

\* C1: once the pass that follows a committed GUI change has completed, the
\* attached cloud is the one the generator yields for the committed state
\* (count, radius, branches, spin, randomness, randomnessPower, colours),
\* given the random draws of that pass.
C1_CloudMatchesCommitted ==
    Settled =>
        /\ geometry.position.data = PositionsOf(state, passRng)
        /\ geometry.color.data = ColorsOf(state, passRng)

\* C2: a pass over parameters with count = 0, branches = 0 or radius = 0
\* attaches nothing: the geometry's attributes stay what they were.
C2_DegeneratePassAttachesNothing ==
    [][Degenerate(parameters) => geometry' = geometry]_vars

\* C3: a completed pass leaves two attached buffers of exactly 3 * count
\* floats each; iteration i writes entries 3i, 3i+1, 3i+2 of both buffers
\* and no other entry, and the entries of later iterations are still the
\* zero fill when it runs.
C3_BuffersIndexAligned ==
    /\ [](Settled =>
            /\ DOMAIN geometry.position.data = 0 .. 3 * parameters.count - 1
            /\ DOMAIN geometry.color.data = 0 .. 3 * parameters.count - 1)
    /\ [](pc = "loop" =>
            /\ DOMAIN positions.data = 0 .. 3 * parameters.count - 1
            /\ DOMAIN colors.data = 0 .. 3 * parameters.count - 1
            /\ \A k \in DOMAIN positions.data :
                  k >= 3 * i =>
                      /\ positions.data[k] = Plain(Zero)
                      /\ colors.data[k] = Zero)
    /\ [][pc = "loop" /\ pc' = "loop" =>
            /\ i' = i + 1
            /\ \A k \in DOMAIN positions.data :
                  k \notin {3 * i, 3 * i + 1, 3 * i + 2} =>
                      /\ positions'.data[k] = positions.data[k]
                      /\ colors'.data[k] = colors.data[k]
            /\ positions'.data[3 * i].fn = "cos"
            /\ positions'.data[3 * i + 2].fn = "sin"
            /\ colors'.data[3 * i] = Particle(parameters, i, rng).r
            /\ colors'.data[3 * i + 1] = Particle(parameters, i, rng).g
            /\ colors'.data[3 * i + 2] = Particle(parameters, i, rng).b]_vars

C3_Witness ==
    /\ Settled
    /\ Valid(parameters)
    /\ parameters.count = MaxCount
    /\ geometry.position.data[3 * MaxCount - 1].off # Zero

\* C4: the angle applied to the points object never decreases from one
\* frame to a later one.
C4_AngleNeverDecreases == [][Leq(rotationY, rotationY')]_vars

\* C5: a display frame changes the orientation of the points object and
\* nothing else of it: the attached buffers, the parameters and the GUI
\* state are untouched, and the angle it stores is 0.05 times the clock's
\* elapsed seconds, whether or not a pass ran since the previous frame.
C5_FrameOnlyRotates ==
    [][(\E dt \in {0, TickSeconds} : Frame(dt)) =>
            /\ geometry' = geometry
            /\ parameters' = parameters
            /\ state' = state
            /\ rotationY' = Mul(Num(clock'.elapsedTime), RotationSpeed)]_vars

C5_Witness ==
    /\ Settled
    /\ passes = 2
    /\ clock.running
    /\ Less(Zero, rotationY)
    /\ geometry.position.id # 0

\* the interval spanned by a and b contains v
Between(a, v, b) == (Leq(a, v) /\ Leq(v, b)) \/ (Leq(b, v) /\ Leq(v, a))

Channel(c, k) == CASE k % 3 = 0 -> c.r [] k % 3 = 1 -> c.g [] OTHER -> c.b

SampledRadius(P, idx) ==
    Mul(RandomAt(passRng, DrawsPerParticle * idx), P.radius)

\* C7: with randomness = 0 every particle idx has y = 0 and (x, z) at its
\* sampled radius r and at angle (idx mod branches)/branches * 2 PI + r * spin,
\* with colour inside + (outside - inside) * r / parameters.radius.  For
\* count 4, branches 2, radius 1, spin 0, red to blue, every draw 1/2:
\* particles 0 and 2 at angle 0, particles 1 and 3 at angle PI, all at
\* radius 1/2 with colour (1/2, 0, 1/2).
C7_OnArmWithoutRandomness ==
    LET P == parameters
        pos == geometry.position.data
        col == geometry.color.data
    IN  /\ Settled /\ Valid(P) /\ P.randomness = Zero =>
            \A idx \in Particles(P) :
                LET r == SampledRadius(P, idx)
                    theta == [pi |-> Frac(2 * (idx % P.branches), P.branches),
                              rad |-> Mul(r, P.spin)]
                    t == Div(r, P.radius)
                    cin == Color(P.colorIn)
                    cout == Color(P.colorOut)
                IN  /\ pos[3 * idx] = Trig("cos", theta, r, Zero)
                    /\ pos[3 * idx + 1] = Plain(Zero)
                    /\ pos[3 * idx + 2] = Trig("sin", theta, r, Zero)
                    /\ col[3 * idx] = Add(cin.r, Mul(Sub(cout.r, cin.r), t))
                    /\ col[3 * idx + 1] = Add(cin.g, Mul(Sub(cout.g, cin.g), t))
                    /\ col[3 * idx + 2] = Add(cin.b, Mul(Sub(cout.b, cin.b), t))
        /\ Settled /\ P = Planar /\ passRng.stream = 1 =>
            \A idx \in 0 .. 3 :
                /\ pos[3 * idx].pi = (IF idx \in {0, 2} THEN Num(0) ELSE Num(1))
                /\ pos[3 * idx].rad = Zero
                /\ pos[3 * idx].r = Frac(1, 2)
                /\ pos[3 * idx].off = Zero
                /\ pos[3 * idx + 1] = Plain(Zero)
                /\ pos[3 * idx + 2] =
                      [pos[3 * idx] EXCEPT !.fn = "sin"]
                /\ col[3 * idx] = Frac(1, 2)
                /\ col[3 * idx + 1] = Zero
                /\ col[3 * idx + 2] = Frac(1, 2)

C7_Witness == Settled /\ parameters = Planar /\ passRng.stream = 1

\* C8: the arrays a pass fills are fresh ones, never the attached ones, and
\* whenever a display frame may run the attached position and colour arrays
\* were allocated by the same pass, have the same length and are filled.
C8_CloudReplacedWhole ==
    /\ pc = "loop" =>
          /\ positions.id # colors.id
          /\ {positions.id, colors.id} \cap
                {geometry.position.id, geometry.color.id} = {}
    /\ FrameMayRun =>
          /\ geometry.position.id # 0
          /\ geometry.color.id = geometry.position.id + 1
          /\ DOMAIN geometry.position.data = DOMAIN geometry.color.data
          /\ \A k \in DOMAIN geometry.position.data :
                geometry.position.data[k].fn =
                    (CASE k % 3 = 0 -> "cos" [] k % 3 = 1 -> "one"
                       [] OTHER -> "sin")

C8_Witness ==
    /\ FrameMayRun
    /\ passes = 2
    /\ clock.running
    /\ geometry.position.id = 3
    /\ DOMAIN geometry.position.data # {}

\* the particles of the attached cloud that lie on arm b
Arm(P, b) ==
    {idx \in Particles(P) :
        geometry.position.data[3 * idx].pi = Frac(2 * b, P.branches)}

RECURSIVE SumArms(_, _)
SumArms(P, b) ==
    IF b < 0 THEN 0 ELSE Cardinality(Arm(P, b)) + SumArms(P, b - 1)

\* C9: for count >= 1 and branches >= 1 every arm b in [0, branches) holds
\* floor(count/branches) or ceil(count/branches) particles, particle idx is
\* on arm idx mod branches, and the arms' sizes sum to count.
C9_RoundRobinArms ==
    LET P == parameters
        lo == P.count \div P.branches
        hi == (P.count + P.branches - 1) \div P.branches
    IN  Settled /\ P.count >= 1 /\ P.branches >= 1 =>
            /\ \A b \in 0 .. P.branches - 1 : Cardinality(Arm(P, b)) \in {lo, hi}
            /\ \A idx \in Particles(P) : idx \in Arm(P, idx % P.branches)
            /\ SumArms(P, P.branches - 1) = P.count

C9_Witness ==
    /\ Settled
    /\ parameters.count = MaxCount
    /\ parameters.branches = MaxBranches
    /\ MaxCount % MaxBranches # 0

\* C10: every render of Galaxy is followed by exactly one generation pass,
\* which replaces the attached cloud by the arrays it allocated: when
\* nothing is pending the passes equal the renders, and while a pass is
\* pending or running exactly one is outstanding.
C10_OnePassPerRender ==
    /\ pc = "unmounted" => renders = 0 /\ passes = 0
    /\ pc \in {"effect", "loop"} => passes = renders - 1
    /\ pc = "idle" =>
          /\ passes = renders
          /\ geometry.position.id = nextId - 2
          /\ geometry.color.id = nextId - 1

\* a change of size alone has been followed by a second pass
C10_Witness ==
    /\ pc = "idle"
    /\ passes = 2
    /\ state # parameters
    /\ state = [parameters EXCEPT !.size = Frac(1, 10)]
    /\ geometry.position.id = 3

====
